---- MODULE Spec2Model ----
(***************************************************************************)
(* Time ROI calculator (timeROI.js): validateInputs, calculateTimeROI,     *)
(* calculateTimeROISimple and interpretTimeROI.                            *)
(*                                                                         *)
(* The module keeps no state of its own.  The state of the model is the    *)
(* activation frame of the call in progress (its arguments, its locals     *)
(* and its position) together with the outcome the caller observes.        *)
(*                                                                         *)
(* JavaScript numbers are modelled as tagged values: a finite number is an *)
(* exact fraction n/d in lowest terms, and NaN, +Infinity, -Infinity and   *)
(* undefined (typeof !== 'number') are values of their own with the        *)
(* arithmetic and the comparisons IEEE-754 and ECMAScript give them.       *)
(* Finite arithmetic is exact: the rounding error of binary doubles (of    *)
(* the order of 1e-16 relative) is below the resolution of the model.      *)
(***************************************************************************)
EXTENDS Integers, Sequences, FiniteSets, TLC

VARIABLES pc, fn, args, finalWeights, compositeScore, timeROI, result, error,
          score, interpretation, prev

vars == <<pc, fn, args, finalWeights, compositeScore, timeROI, result, error,
          score, interpretation, prev>>

(***************************************************************************)
(* Number values                                                           *)
(***************************************************************************)
NaN == [k |-> "nan", n |-> 0, d |-> 1]
Infinity == [k |-> "inf", n |-> 1, d |-> 1]
NegInfinity == [k |-> "inf", n |-> -1, d |-> 1]
undefined == [k |-> "undef", n |-> 0, d |-> 1]
null == [k |-> "null", n |-> 0, d |-> 1]

AbsInt(i) == IF i < 0 THEN -i ELSE i

RECURSIVE GCD(_, _)
GCD(a, b) == IF b = 0 THEN a ELSE GCD(b, a % b)

\* the finite number n/d, in lowest terms with a positive denominator
Rat(n, d) ==
  LET g == GCD(AbsInt(n), AbsInt(d))
      s == IF d < 0 THEN -1 ELSE 1
  IN  [k |-> "num", n |-> (s * n) \div g, d |-> (s * d) \div g]

Num(i) == Rat(i, 1)

\* typeof x === 'number'
TypeofNumber(x) == x.k \in {"num", "nan", "inf"}

\* ToNumber of the values of the model: undefined converts to NaN
ToNumber(x) == IF TypeofNumber(x) THEN x ELSE NaN

\* the global isNaN(x)
isNaN(x) == ToNumber(x).k = "nan"

\* a < b on numbers; every comparison with NaN is false
LtNum(a, b) ==
  /\ a.k # "nan"
  /\ b.k # "nan"
  /\ CASE a.k = "inf" /\ b.k = "inf" -> a.n < b.n
       [] a.k = "inf" -> a.n < 0
       [] b.k = "inf" -> b.n > 0
       [] OTHER -> a.n * b.d < b.n * a.d

Lt(a, b) == LtNum(ToNumber(a), ToNumber(b))
Gt(a, b) == Lt(b, a)
Le(a, b) ==
  LET x == ToNumber(a)
      y == ToNumber(b)
  IN  x.k # "nan" /\ y.k # "nan" /\ ~LtNum(y, x)

Neg(a) ==
  LET x == ToNumber(a)
  IN  IF x.k = "nan" THEN NaN ELSE [x EXCEPT !.n = -x.n]

\* a + b
Add(a, b) ==
  LET x == ToNumber(a)
      y == ToNumber(b)
  IN  CASE x.k = "nan" \/ y.k = "nan" -> NaN
        [] x.k = "inf" /\ y.k = "inf" -> IF x.n = y.n THEN x ELSE NaN
        [] x.k = "inf" -> x
        [] y.k = "inf" -> y
        [] OTHER ->
             LET l == (x.d \div GCD(x.d, y.d)) * y.d
             IN  Rat(x.n * (l \div x.d) + y.n * (l \div y.d), l)

Sub(a, b) == Add(a, Neg(b))

SignOf(x) == IF x.n < 0 THEN -1 ELSE 1

\* a * b
Mul(a, b) ==
  LET x == ToNumber(a)
      y == ToNumber(b)
  IN  CASE x.k = "nan" \/ y.k = "nan" -> NaN
        [] x.k = "inf" \/ y.k = "inf" ->
             IF x.n = 0 \/ y.n = 0 THEN NaN
             ELSE IF SignOf(x) = SignOf(y) THEN Infinity ELSE NegInfinity
        [] OTHER -> Rat(x.n * y.n, x.d * y.d)

\* a / b
Div(a, b) ==
  LET x == ToNumber(a)
      y == ToNumber(b)
  IN  CASE x.k = "nan" \/ y.k = "nan" -> NaN
        [] x.k = "inf" /\ y.k = "inf" -> NaN
        [] x.k = "inf" ->
             IF SignOf(x) = SignOf(y) THEN Infinity ELSE NegInfinity
        [] y.k = "inf" -> Num(0)
        [] y.n = 0 ->
             IF x.n = 0 THEN NaN
             ELSE IF x.n > 0 THEN Infinity ELSE NegInfinity
        [] OTHER -> Rat(x.n * y.d, x.d * y.n)

\* Math.abs
MathAbs(a) ==
  LET x == ToNumber(a)
  IN  IF x.k = "nan" THEN NaN ELSE [x EXCEPT !.n = AbsInt(x.n)]

\* Math.round: the nearest integer, a tie going towards +Infinity
MathRound(a) ==
  LET x == ToNumber(a)
  IN  IF x.k = "num" THEN Num((2 * x.n + x.d) \div (2 * x.d)) ELSE x

(***************************************************************************)
(* Values of the program                                                   *)
(***************************************************************************)
\* a weights object {effort, skillGrowth, perceivedValue}
Weights(w1, w2, w3) ==
  [k |-> "object", effort |-> w1, skillGrowth |-> w2, perceivedValue |-> w3]

IsObject(w) == w.k = "object"

Args(timeSpent, effort, skillGrowth, perceivedValue, weights) ==
  [timeSpent |-> timeSpent, effort |-> effort, skillGrowth |-> skillGrowth,
   perceivedValue |-> perceivedValue, weights |-> weights]

NoArgs == Args(undefined, undefined, undefined, undefined, null)
NoError == "none"
NoInterpretation == [category |-> "none", description |-> "none"]
NoCall == [fn |-> "none", args |-> NoArgs, pc |-> "idle", result |-> undefined,
           error |-> NoError]

(***************************************************************************)
(* validateInputs: the message of the error thrown, or NoError             *)
(***************************************************************************)
WeightsSum(w1, w2, w3) == Add(Add(w1, w2), w3)

\* the sum compared without Math.abs
validateWeightsNoAbs(weights) ==
  LET w1 == weights.effort
      w2 == weights.skillGrowth
      w3 == weights.perceivedValue
  IN  IF ~TypeofNumber(w1) \/ ~TypeofNumber(w2) \/ ~TypeofNumber(w3)
        THEN "All weights must be valid numbers"
      ELSE IF isNaN(w1) \/ isNaN(w2) \/ isNaN(w3)
        THEN "Weights cannot be NaN"
      ELSE IF Gt(Sub(WeightsSum(w1, w2, w3), Num(1)), Rat(1, 1000))
        THEN "Weights must sum to 1.0"
      ELSE IF Lt(w1, Num(0)) \/ Lt(w2, Num(0)) \/ Lt(w3, Num(0))
        THEN "Weights cannot be negative"
      ELSE NoError

\* the check for negative weights left out
validateWeightsNoSign(weights) ==
  LET w1 == weights.effort
      w2 == weights.skillGrowth
      w3 == weights.perceivedValue
  IN  IF ~TypeofNumber(w1) \/ ~TypeofNumber(w2) \/ ~TypeofNumber(w3)
        THEN "All weights must be valid numbers"
      ELSE IF isNaN(w1) \/ isNaN(w2) \/ isNaN(w3)
        THEN "Weights cannot be NaN"
      ELSE IF Gt(MathAbs(Sub(WeightsSum(w1, w2, w3), Num(1))), Rat(1, 1000))
        THEN "Weights must sum to 1.0"
      ELSE NoError

validateWeights(weights) ==
  LET w1 == weights.effort
      w2 == weights.skillGrowth
      w3 == weights.perceivedValue
  IN  IF ~TypeofNumber(w1) \/ ~TypeofNumber(w2) \/ ~TypeofNumber(w3)
        THEN "All weights must be valid numbers"
      ELSE IF isNaN(w1) \/ isNaN(w2) \/ isNaN(w3)
        THEN "Weights cannot be NaN"
      ELSE IF Gt(MathAbs(Sub(WeightsSum(w1, w2, w3), Num(1))), Rat(1, 1000))
        THEN "Weights must sum to 1.0"
      ELSE IF Lt(w1, Num(0)) \/ Lt(w2, Num(0)) \/ Lt(w3, Num(0))
        THEN "Weights cannot be negative"
      ELSE NoError

validateInputs(timeSpent, effort, skillGrowth, perceivedValue, weights) ==
  IF ~TypeofNumber(timeSpent) \/ isNaN(timeSpent)
    THEN "Time spent must be a valid number"
  ELSE IF Le(timeSpent, Num(0))
    THEN "Time spent must be greater than 0"
  ELSE IF ~TypeofNumber(effort) \/ isNaN(effort)
    THEN "Effort must be a valid number"
  ELSE IF Lt(effort, Num(0)) \/ Gt(effort, Num(10))
    THEN "Effort must be between 0 and 10"
  ELSE IF ~TypeofNumber(skillGrowth) \/ isNaN(skillGrowth)
    THEN "Skill growth must be a valid number"
  ELSE IF Lt(skillGrowth, Num(0)) \/ Gt(skillGrowth, Num(10))
    THEN "Skill growth must be between 0 and 10"
  ELSE IF ~TypeofNumber(perceivedValue) \/ isNaN(perceivedValue)
    THEN "Perceived value must be a valid number"
  ELSE IF Lt(perceivedValue, Num(0)) \/ Gt(perceivedValue, Num(10))
    THEN "Perceived value must be between 0 and 10"
  ELSE IF weights # null /\ IsObject(weights)
    THEN validateWeights(weights)
  ELSE NoError

(***************************************************************************)
(* calculateTimeROI and calculateTimeROISimple, statement by statement     *)
(***************************************************************************)
defaultWeights == Weights(Rat(2, 10), Rat(3, 10), Rat(5, 10))

\* weights || defaultWeights
FinalWeights(weights) == IF weights = null THEN defaultWeights ELSE weights

\* the weights of skillGrowth and perceivedValue taken for each other
CompositeScoreSwapped(effort, skillGrowth, perceivedValue, w) ==
  Add(Add(Mul(effort, w.effort), Mul(skillGrowth, w.perceivedValue)),
      Mul(perceivedValue, w.skillGrowth))

\* (effort * w1) + (skillGrowth * w2) + (perceivedValue * w3)
CompositeScore(effort, skillGrowth, perceivedValue, w) ==
  Add(Add(Mul(effort, w.effort), Mul(skillGrowth, w.skillGrowth)),
      Mul(perceivedValue, w.perceivedValue))

\* (effort + skillGrowth + perceivedValue) / 3
AverageScore(effort, skillGrowth, perceivedValue) ==
  Div(Add(Add(effort, skillGrowth), perceivedValue), Num(3))

\* the composite multiplied by the time instead of divided by it
TimeROIProduct(composite, timeSpent) ==
  Mul(Mul(composite, timeSpent), Num(100))

\* the time divided by the composite
TimeROIInverted(composite, timeSpent) ==
  Mul(Div(timeSpent, composite), Num(100))

\* (compositeScore / timeSpent) * 100
TimeROI(composite, timeSpent) == Mul(Div(composite, timeSpent), Num(100))

\* Math.round(timeROI * 100) / 100
Rounded(roi) == Div(MathRound(Mul(roi, Num(100))), Num(100))

(***************************************************************************)
(* interpretTimeROI                                                        *)
(***************************************************************************)
Interpretation(category, description) ==
  [category |-> category, description |-> description]

\* the thresholds compared with < where the code compares with <=
interpretTimeROIStrict(s) ==
  IF Lt(s, Num(0))
    THEN Interpretation("Invalid", "Score cannot be negative")
  ELSE IF Lt(s, Num(30))
    THEN Interpretation("Low", "Consider if activity is worth continuing")
  ELSE IF Lt(s, Num(60))
    THEN Interpretation("Moderate", "Decent returns, room for improvement")
  ELSE IF Lt(s, Num(80))
    THEN Interpretation("Good", "Strong returns relative to time invested")
  ELSE IF Lt(s, Num(100))
    THEN Interpretation("Excellent", "Highly efficient use of time")
  ELSE Interpretation("Exceptional", "Extremely high value per hour")

interpretTimeROI(s) ==
  IF Lt(s, Num(0))
    THEN Interpretation("Invalid", "Score cannot be negative")
  ELSE IF Le(s, Num(30))
    THEN Interpretation("Low", "Consider if activity is worth continuing")
  ELSE IF Le(s, Num(60))
    THEN Interpretation("Moderate", "Decent returns, room for improvement")
  ELSE IF Le(s, Num(80))
    THEN Interpretation("Good", "Strong returns relative to time invested")
  ELSE IF Le(s, Num(100))
    THEN Interpretation("Excellent", "Highly efficient use of time")
  ELSE Interpretation("Exceptional", "Extremely high value per hour")

(***************************************************************************)
(* The calls                                                               *)
(***************************************************************************)
Scoring == {"calculateTimeROI", "calculateTimeROISimple"}
Functions == Scoring \cup {"validateInputs"}

Init ==
  /\ pc = "idle"
  /\ fn = "none"
  /\ args = NoArgs
  /\ finalWeights = null
  /\ compositeScore = undefined
  /\ timeROI = undefined
  /\ result = undefined
  /\ error = NoError
  /\ score = undefined
  /\ interpretation = NoInterpretation
  /\ prev = NoCall

\* the weights the function f hands to validateInputs
WeightsToValidate(f, weights) ==
  IF f = "calculateTimeROI" THEN FinalWeights(weights)
  ELSE IF f = "calculateTimeROISimple" THEN null
  ELSE weights

\* a caller enters f with the arguments a; keep: the caller remembers the
\* call it has just finished
Call(f, a, keep) ==
  /\ pc \in IF keep THEN {"returned"} ELSE {"idle"}
  /\ pc' = "validate"
  /\ fn' = f
  /\ args' = IF f = "calculateTimeROISimple" THEN [a EXCEPT !.weights = null]
             ELSE a
  /\ finalWeights' = WeightsToValidate(f, a.weights)
  /\ compositeScore' = undefined
  /\ timeROI' = undefined
  /\ result' = undefined
  /\ error' = NoError
  /\ score' = undefined
  /\ interpretation' = NoInterpretation
  /\ prev' = IF keep
             THEN [fn |-> fn, args |-> args, pc |-> pc, result |-> result,
                   error |-> error]
             ELSE NoCall

\* the error of validateInputs caught and dropped: the function goes on
ValidateSwallowed ==
  /\ pc = "validate"
  /\ pc' = IF fn = "validateInputs" THEN "returned" ELSE "composite"
  /\ UNCHANGED <<fn, args, finalWeights, compositeScore, timeROI, result,
                 error, score, interpretation, prev>>

\* validateInputs(...) runs: it throws, or the function goes on
Validate ==
  /\ pc = "validate"
  /\ LET e == validateInputs(args.timeSpent, args.effort, args.skillGrowth,
                             args.perceivedValue, finalWeights)
     IN  /\ error' = e
         /\ pc' = IF e # NoError THEN "thrown"
                  ELSE IF fn = "validateInputs" THEN "returned"
                  ELSE "composite"
  /\ UNCHANGED <<fn, args, finalWeights, compositeScore, timeROI, result,
                 score, interpretation, prev>>

\* const compositeScore = ... ; const averageScore = ...
Composite ==
  /\ pc = "composite"
  /\ compositeScore' =
       IF fn = "calculateTimeROI"
       THEN CompositeScore(args.effort, args.skillGrowth, args.perceivedValue,
                           finalWeights)
       ELSE AverageScore(args.effort, args.skillGrowth, args.perceivedValue)
  /\ pc' = "ratio"
  /\ UNCHANGED <<fn, args, finalWeights, timeROI, result, error, score,
                 interpretation, prev>>

\* const timeROI = ...
Ratio ==
  /\ pc = "ratio"
  /\ timeROI' = TimeROI(compositeScore, args.timeSpent)
  /\ pc' = "round"
  /\ UNCHANGED <<fn, args, finalWeights, compositeScore, result, error, score,
                 interpretation, prev>>

\* return Math.round(timeROI * 100) / 100
Return ==
  /\ pc = "round"
  /\ result' = Rounded(timeROI)
  /\ pc' = "returned"
  /\ UNCHANGED <<fn, args, finalWeights, compositeScore, timeROI, error, score,
                 interpretation, prev>>

\* interpretTimeROI(s), called on its own
Interpret(s) ==
  /\ pc = "idle"
  /\ pc' = "returned"
  /\ fn' = "interpretTimeROI"
  /\ args' = NoArgs
  /\ finalWeights' = null
  /\ compositeScore' = undefined
  /\ timeROI' = undefined
  /\ result' = undefined
  /\ error' = NoError
  /\ score' = s
  /\ interpretation' = interpretTimeROI(s)
  /\ prev' = NoCall

\* interpretTimeROI(score) on the score a scoring function has just returned
InterpretResult ==
  /\ pc = "returned"
  /\ fn \in Scoring
  /\ interpretation = NoInterpretation
  /\ score' = result
  /\ interpretation' = interpretTimeROI(result)
  /\ UNCHANGED <<pc, fn, args, finalWeights, compositeScore, timeROI, result,
                 error, prev>>

\* the caller is done with the outcome of its call
Discard ==
  /\ pc \in {"returned", "thrown"}
  /\ pc' = "idle"
  /\ fn' = "none"
  /\ args' = NoArgs
  /\ finalWeights' = null
  /\ compositeScore' = undefined
  /\ timeROI' = undefined
  /\ result' = undefined
  /\ error' = NoError
  /\ score' = undefined
  /\ interpretation' = NoInterpretation
  /\ prev' = NoCall

Step == Validate \/ Composite \/ Ratio \/ Return \/ InterpretResult

(***************************************************************************)
(* Inputs                                                                  *)
(***************************************************************************)
\* largest whole number of hours of the short activities
MaxTime == 5
\* a long activity, in hours, and how many hours longer its neighbours are
LongTime == 200
MaxLongStep == 1
\* weight sums 1 + k/10000 for k in -MaxDeviation .. MaxDeviation
MaxDeviation == 11

\* every kind of value an argument can be
TimeInputs ==
  {undefined, NaN, NegInfinity, Infinity, Num(-1), Num(0), Num(10)}

MeasureInputs ==
  {undefined, NaN, NegInfinity, Infinity, Num(-1), Num(0), Num(5), Num(10),
   Num(15)}

\* weights whose sum is 1 + k/10000
Deviating(k) == Weights(Rat(1, 2), Rat(5000 + k, 10000), Num(0))

WeightInputs ==
  {null,
   Weights(Rat(2, 10), Rat(3, 10), Rat(5, 10)),
   Weights(Rat(3, 10), Rat(3, 10), Rat(3, 10)),
   Weights(Rat(-1, 2), Num(1), Rat(1, 2)),
   Weights(Rat(-1, 10), Rat(1, 2), Rat(1, 2)),
   Weights(Num(2), Rat(-1, 2), Rat(-1, 2)),
   Weights(undefined, Rat(1, 2), Rat(1, 2)),
   Weights(Rat(1, 2), NaN, Rat(1, 2)),
   Weights(Rat(1, 2), Rat(1, 2), Infinity),
   Weights(Infinity, NegInfinity, Num(1)),
   Weights(NegInfinity, Num(1), Num(1))}
  \cup {Deviating(k) : k \in -MaxDeviation .. MaxDeviation}

\* scores around the thresholds of interpretTimeROI, in steps of 0.0001
ScoreInputs ==
  {NaN, NegInfinity, Infinity, Num(-1), Rat(-1, 10000), Num(0),
   Rat(1, 10000), Num(83), Num(1000)}
  \cup {Rat(10000 * b + k, 10000) : b \in {30, 60, 80, 100}, k \in -1 .. 1}

\* arguments the validator accepts, and a few it does not
ScoreTimes ==
  {Rat(1, 2), Num(10), Num(16), Num(32), Infinity, Num(0)}
  \cup {Num(t) : t \in 1 .. MaxTime}

ScoreMeasures ==
  {Num(0), Rat(1, 2), Num(5), Num(7), Num(8), Num(9), Num(10), Num(15)}

ScoreWeights ==
  {null,
   Weights(Rat(2, 10), Rat(3, 10), Rat(5, 10)),
   Weights(Rat(1, 3), Rat(1, 3), Rat(1, 3)),
   Weights(Rat(3, 10), Rat(4, 10), Rat(3, 10)),
   Weights(Rat(2, 10), Rat(5, 10), Rat(3, 10)),
   Weights(Num(1), Num(0), Num(0)),
   Weights(Rat(1, 2), Rat(1, 2), Rat(1, 1000)),
   Weights(Rat(3, 10), Rat(3, 10), Rat(3, 10))}

\* arguments of two calls that differ in one argument
PairTimes ==
  {Num(t) : t \in 1 .. MaxTime}
  \cup {Num(LongTime + k) : k \in 0 .. MaxLongStep}
  \cup {Infinity}

PairMeasures == {Num(0), Num(1), Num(5), Num(10)}

PairWeights ==
  {null,
   Weights(Rat(1, 3), Rat(1, 3), Rat(1, 3)),
   Weights(Num(1), Num(0), Num(0))}

(***************************************************************************)
(* Specifications                                                          *)
(***************************************************************************)
\* calls with every kind of argument
Next ==
  \/ /\ pc = "idle"
     /\ \E f \in Functions, t \in TimeInputs, e \in MeasureInputs,
           s \in MeasureInputs, v \in MeasureInputs, w \in WeightInputs :
          Call(f, Args(t, e, s, v, w), FALSE)
  \/ /\ pc = "idle"
     /\ \E s \in ScoreInputs : Interpret(s)
  \/ Step
  \/ Discard

Spec == Init /\ [][Next]_vars

\* calls of the scoring functions
NextScore ==
  \/ /\ pc = "idle"
     /\ \E f \in Scoring, t \in ScoreTimes, e \in ScoreMeasures,
           s \in ScoreMeasures, v \in ScoreMeasures, w \in ScoreWeights :
          Call(f, Args(t, e, s, v, w), FALSE)
  \/ Step
  \/ Discard

SpecScore == Init /\ [][NextScore]_vars

\* a second call of the same function with one argument changed (or none)
Recall ==
  /\ pc = "returned"
  /\ fn \in Scoring
  /\ prev = NoCall
  /\ \/ \E t \in PairTimes : Call(fn, [args EXCEPT !.timeSpent = t], TRUE)
     \/ \E e \in PairMeasures : Call(fn, [args EXCEPT !.effort = e], TRUE)
     \/ \E s \in PairMeasures : Call(fn, [args EXCEPT !.skillGrowth = s], TRUE)
     \/ \E v \in PairMeasures :
          Call(fn, [args EXCEPT !.perceivedValue = v], TRUE)

NextPair ==
  \/ /\ pc = "idle"
     /\ \E f \in Scoring, t \in PairTimes, e \in PairMeasures,
           s \in PairMeasures, v \in PairMeasures, w \in PairWeights :
          Call(f, Args(t, e, s, v, w), FALSE)
  \/ Recall
  \/ Validate \/ Composite \/ Ratio \/ Return
  \/ Discard

SpecPair == Init /\ [][NextPair]_vars

(***************************************************************************)
(* The rules of the contract, stated on the values themselves              *)
(***************************************************************************)
IsFinite(x) == x.k = "num"
IsPositive(x) == IsFinite(x) /\ x.n > 0
InZeroToTen(x) == IsFinite(x) /\ 0 <= x.n /\ x.n <= 10 * x.d
Ended == pc \in {"returned", "thrown"}

\* the weights a call of calculateTimeROI computes with
EffectiveWeights(w) ==
  IF w = null THEN Weights(Rat(1, 5), Rat(3, 10), Rat(1, 2)) ELSE w

WeightsFinite(w) ==
  IsFinite(w.effort) /\ IsFinite(w.skillGrowth) /\ IsFinite(w.perceivedValue)

\* w1 + w2 + w3 as the fraction SumN / SumD, for finite weights
SumN(w) ==
  w.effort.n * w.skillGrowth.d * w.perceivedValue.d
  + w.skillGrowth.n * w.effort.d * w.perceivedValue.d
  + w.perceivedValue.n * w.effort.d * w.skillGrowth.d
SumD(w) == w.effort.d * w.skillGrowth.d * w.perceivedValue.d

\* |w1 + w2 + w3 - 1| <= 0.001
SumWithinTolerance(w) == 1000 * AbsInt(SumN(w) - SumD(w)) <= SumD(w)

SomeWeightNegative(w) ==
  w.effort.n < 0 \/ w.skillGrowth.n < 0 \/ w.perceivedValue.n < 0

MeasuresValid(a) ==
  /\ IsPositive(a.timeSpent)
  /\ InZeroToTen(a.effort)
  /\ InZeroToTen(a.skillGrowth)
  /\ InZeroToTen(a.perceivedValue)

\* the number of the first rule the arguments violate, 0 when there is none
FirstViolatedRule(a) ==
  IF ~IsFinite(a.timeSpent) THEN 1
  ELSE IF a.timeSpent.n <= 0 THEN 2
  ELSE IF ~InZeroToTen(a.effort) THEN 3
  ELSE IF ~InZeroToTen(a.skillGrowth) THEN 4
  ELSE IF ~InZeroToTen(a.perceivedValue) THEN 5
  ELSE IF a.weights = null THEN 0
  ELSE IF ~WeightsFinite(a.weights) THEN 6
  ELSE IF ~SumWithinTolerance(a.weights) THEN 7
  ELSE IF SomeWeightNegative(a.weights) THEN 8
  ELSE 0

\* the rule an error message reports
RuleOf(e) ==
  IF e = "Time spent must be a valid number" THEN 1
  ELSE IF e = "Time spent must be greater than 0" THEN 2
  ELSE IF e \in {"Effort must be a valid number",
                 "Effort must be between 0 and 10"} THEN 3
  ELSE IF e \in {"Skill growth must be a valid number",
                 "Skill growth must be between 0 and 10"} THEN 4
  ELSE IF e \in {"Perceived value must be a valid number",
                 "Perceived value must be between 0 and 10"} THEN 5
  ELSE IF e \in {"All weights must be valid numbers",
                 "Weights cannot be NaN"} THEN 6
  ELSE IF e = "Weights must sum to 1.0" THEN 7
  ELSE IF e = "Weights cannot be negative" THEN 8
  ELSE 0

(***************************************************************************)
(* C1                                                                      *)
(***************************************************************************)
\* C1: validateInputs ends with the error of the first violated rule, in the
\* order: timeSpent not a finite number, timeSpent <= 0, effort, skillGrowth,
\* perceivedValue not finite or outside [0,10], then for supplied weights: a
\* weight not finite, the sum off 1.0 by more than 0.001, a negative weight;
\* and it succeeds exactly when no rule is violated.
C1_FirstViolatedRuleReported ==
  (fn = "validateInputs" /\ Ended) =>
    /\ RuleOf(error) = FirstViolatedRule(args)
    /\ (pc = "returned") = (FirstViolatedRule(args) = 0)

(***************************************************************************)
(* C3                                                                      *)
(***************************************************************************)
\* the category and the text the thresholds of the contract give a score
ExpectedInterpretation(x) ==
  IF x.n < 0
    THEN Interpretation("Invalid", "Score cannot be negative")
  ELSE IF x.k = "num" /\ x.n <= 30 * x.d
    THEN Interpretation("Low", "Consider if activity is worth continuing")
  ELSE IF x.k = "num" /\ x.n <= 60 * x.d
    THEN Interpretation("Moderate", "Decent returns, room for improvement")
  ELSE IF x.k = "num" /\ x.n <= 80 * x.d
    THEN Interpretation("Good", "Strong returns relative to time invested")
  ELSE IF x.k = "num" /\ x.n <= 100 * x.d
    THEN Interpretation("Excellent", "Highly efficient use of time")
  ELSE Interpretation("Exceptional", "Extremely high value per hour")

\* C3: interpretTimeROI returns for every score (a real number, or an
\* infinity) the one category of the thresholds <0, <=30, <=60, <=80, <=100,
\* >100, each boundary value in the lower category, with the category's text.
C3_InterpretByThresholds ==
  (fn = "interpretTimeROI" /\ score.k \in {"num", "inf"}) =>
    /\ pc = "returned"
    /\ error = NoError
    /\ interpretation = ExpectedInterpretation(score)

\* interpret(80.0001) has returned "Excellent"
C3_Witness ==
  /\ fn = "interpretTimeROI"
  /\ pc = "returned"
  /\ score = Rat(800001, 10000)
  /\ interpretation.category = "Excellent"

(***************************************************************************)
(* C4                                                                      *)
(***************************************************************************)
\* a call of calculateTimeROI with valid measures and a weights object of
\* finite numbers has gone through validation
WeightedCallDecided ==
  /\ fn = "calculateTimeROI"
  /\ pc \notin {"idle", "validate"}
  /\ MeasuresValid(args)
  /\ args.weights # null
  /\ WeightsFinite(args.weights)

\* the weights sum to 0.9
SumIsNineTenths(w) == 10 * SumN(w) = 9 * SumD(w)

ValidateSays ==
  validateInputs(args.timeSpent, args.effort, args.skillGrowth,
                 args.perceivedValue,
                 IF fn = "calculateTimeROI" THEN EffectiveWeights(args.weights)
                 ELSE null)

NothingComputed ==
  compositeScore = undefined /\ timeROI = undefined /\ result = undefined

\* C7: a scoring call validates before any arithmetic: it computes and
\* returns a score exactly when validate accepts its arguments (the default
\* weights standing in for omitted ones), and otherwise ends with validate's
\* error and no score or partial result; calculateTimeROI(0,5,5,5) fails on
\* the time and calculateTimeROI(10,15,5,5) on the effort.
C7_ValidatesBeforeArithmetic ==
  fn \in Scoring =>
    /\ pc \in {"composite", "ratio", "round", "returned"}
         => (ValidateSays = NoError /\ error = NoError)
    /\ pc = "returned" => TypeofNumber(result)
    /\ pc = "thrown" => (ValidateSays # NoError /\ error = ValidateSays)
    /\ pc \in {"validate", "thrown"} => NothingComputed
    /\ (Ended /\ fn = "calculateTimeROI"
        /\ args = Args(Num(0), Num(5), Num(5), Num(5), null))
         => (pc = "thrown" /\ error = "Time spent must be greater than 0")
    /\ (Ended /\ fn = "calculateTimeROI"
        /\ args = Args(Num(10), Num(15), Num(5), Num(5), null))
         => (pc = "thrown" /\ error = "Effort must be between 0 and 10")

\* calculateTimeROI(10,15,5,5) has thrown and computed nothing
C7_Witness ==
  /\ fn = "calculateTimeROI"
  /\ args = Args(Num(10), Num(15), Num(5), Num(5), null)
  /\ pc = "thrown"
  /\ NothingComputed

Halves(x) == (2 * x.n) \div x.d
In3000ths(x) == (3000 * x.n) \div x.d

WholeUnits(a, w) ==
  /\ \A x \in {a.timeSpent, a.effort, a.skillGrowth, a.perceivedValue} :
       (2 * x.n) % x.d = 0
  /\ \A x \in {w.effort, w.skillGrowth, w.perceivedValue} :
       (3000 * x.n) % x.d = 0

\* round((E*w1 + S*w2 + V*w3) / T * 100 * 100), a tie rounded up
WeightedHundredths(a, w) ==
  LET c == Halves(a.effort) * In3000ths(w.effort)
           + Halves(a.skillGrowth) * In3000ths(w.skillGrowth)
           + Halves(a.perceivedValue) * In3000ths(w.perceivedValue)
      t == Halves(a.timeSpent)
  IN  (20 * c + 3 * t) \div (6 * t)

\* round(((E + S + V) / 3) / T * 100 * 100), a tie rounded up
EqualHundredths(a) ==
  LET c == Halves(a.effort) + Halves(a.skillGrowth) + Halves(a.perceivedValue)
      t == Halves(a.timeSpent)
  IN  (20000 * c + 3 * t) \div (6 * t)

ExplicitDefaults == Weights(Rat(1, 5), Rat(3, 10), Rat(1, 2))

C6_EqualWeightScore ==
  (fn = "calculateTimeROISimple" /\ Ended) =>
    /\ (pc = "thrown") = ~MeasuresValid(args)
    /\ RuleOf(error) \notin {6, 7, 8}
    /\ (pc = "returned" /\ IsFinite(args.timeSpent)) =>
         /\ result = Rat(EqualHundredths(args), 100)
         /\ result = Rounded(TimeROI(CompositeScore(args.effort,
                       args.skillGrowth, args.perceivedValue,
                       Weights(Rat(1, 3), Rat(1, 3), Rat(1, 3))),
                       args.timeSpent))
    /\ args = Args(Num(10), Num(7), Num(8), Num(9), null)
         => (pc = "returned" /\ result = Num(80))

(***************************************************************************)
(* C5 and C10: two calls that differ in one argument                       *)
(***************************************************************************)
\* a scoring call and the call of the same function before it have returned
BothReturned ==
  /\ fn \in Scoring
  /\ pc = "returned"
  /\ prev.fn = fn
  /\ prev.pc = "returned"

\* x < y and x <= y for finite x and y
Less(x, y) == x.n * y.d < y.n * x.d
AtMost(x, y) == x.n * y.d <= y.n * x.d

SameMeasuresAndWeights ==
  /\ prev.args.effort = args.effort
  /\ prev.args.skillGrowth = args.skillGrowth
  /\ prev.args.perceivedValue = args.perceivedValue
  /\ prev.args.weights = args.weights

\* the earlier call took less time; effort, skill growth and value are > 0
LongerSecondCall ==
  /\ BothReturned
  /\ fn = "calculateTimeROI"
  /\ SameMeasuresAndWeights
  /\ IsPositive(args.effort)
  /\ IsPositive(args.skillGrowth)
  /\ IsPositive(args.perceivedValue)
  /\ IsFinite(prev.args.timeSpent)
  /\ IsFinite(args.timeSpent)
  /\ Less(prev.args.timeSpent, args.timeSpent)

\* C5 as stated: for fixed effort, skillGrowth, perceivedValue > 0 and fixed
\* weights the returned score is strictly decreasing in timeSpent.
C5_StrictlyDecreasingInTime ==
  LongerSecondCall => Less(result, prev.result)

\* C5 amended: for fixed effort, skillGrowth, perceivedValue > 0 and fixed
\* weights the returned (rounded) score is non-increasing in timeSpent: for
\* valid t1 < t2 the score at t1 is >= the score at t2.
C5_NonIncreasingInTime ==
  LongerSecondCall =>
    /\ IsFinite(result)
    /\ IsFinite(prev.result)
    /\ AtMost(result, prev.result)

\* 200 hours and 201 hours have returned the same score, 0.5
C5_Witness ==
  /\ LongerSecondCall
  /\ prev.args.timeSpent = Num(200)
  /\ args.timeSpent = Num(201)
  /\ prev.result = Rat(1, 2)
  /\ result = Rat(1, 2)

\* the bands of interpretTimeROI, from the lowest
Band(category) ==
  IF category = "Invalid" THEN 0
  ELSE IF category = "Low" THEN 1
  ELSE IF category = "Moderate" THEN 2
  ELSE IF category = "Good" THEN 3
  ELSE IF category = "Excellent" THEN 4
  ELSE 5

\* same time and weights, and no measure lower than in the earlier call
MeasureRaised ==
  /\ BothReturned
  /\ prev.args.timeSpent = args.timeSpent
  /\ prev.args.weights = args.weights
  /\ AtMost(prev.args.effort, args.effort)
  /\ AtMost(prev.args.skillGrowth, args.skillGrowth)
  /\ AtMost(prev.args.perceivedValue, args.perceivedValue)

\* C10: for fixed timeSpent and weights, raising effort, skillGrowth or
\* perceivedValue never lowers the score of calculateTimeROI or of
\* calculateTimeROISimple, nor the band interpretTimeROI gives it.
C10_MonotoneInMeasures ==
  MeasureRaised =>
    /\ IsFinite(result)
    /\ IsFinite(prev.result)
    /\ AtMost(prev.result, result)
    /\ Band(interpretTimeROI(prev.result).category)
         <= Band(interpretTimeROI(result).category)

\* a raised measure has raised the score and moved it to a higher band
C10_Witness ==
  /\ MeasureRaised
  /\ prev.args # args
  /\ Less(prev.result, result)
  /\ Band(interpretTimeROI(prev.result).category)
       < Band(interpretTimeROI(result).category)

====
